---------------------------- MODULE Spec2Model ----------------------------
(***************************************************************************)
(* ATLAS (Adaptive Telemetry & Live Analytics System), v2.1.0.             *)
(*                                                                         *)
(* A model of the collector (collector.py: collect_all, write_cache,       *)
(* write_history), of the cache readers (api.py / cli.py: load_cache) and  *)
(* of the read API (api.py: check_key, get_key_from_request, the make_*    *)
(* responses and the two transport engines).                               *)
(*                                                                         *)
(* The module holds several specifications over one set of variables:      *)
(*   Spec         the collector writing the cache file while readers run   *)
(*                load_cache at arbitrary interleavings;                   *)
(*   SpecCollect  collect_all applied to bounded configurations and        *)
(*                collector failures;                                      *)
(*   SpecHistory  write_history under a moving clock;                      *)
(*   SpecQuery    make_history_response over stored histories;             *)
(*   SpecApi      one request served by the http or the flask engine.      *)
(*   SpecLoop     the collector's main loop, restarted with another        *)
(*                configuration, with history requests served meanwhile;   *)
(*   SpecRun      the main loop alone, its steps weakly fair;              *)
(*   SpecStart    load_config and init_config at the start of the          *)
(*                collector and of the API, in either order.               *)
(*   SpecServe    the API process from its main to its exit or to the      *)
(*                requests it serves.                                      *)
(* A specification leaves the variables of the others at their idle value. *)
(***************************************************************************)
EXTENDS Integers, Sequences, FiniteSets, TLC

VARIABLES
    \* ---- collect_all (SpecCollect)
    cfg,        \* the configuration handed to collect_all: key -> value
    faults,     \* what goes wrong inside each collector during the cycle
    stats,      \* the value collect_all returned (NotRun before the call)
    \* ---- the cache file (Spec)
    dir,        \* directory: path -> inode number, 0 when the path is absent
    inodes,     \* inode number -> file content (a sequence of JSON tokens)
    wpc,        \* the collector's position inside write_cache
    wstats,     \* the snapshot write_cache was given
    wfd,        \* the inode write_cache holds open for writing
    written,    \* every snapshot some write_cache call was given so far
    cycle,      \* number of cycles started by the collector
    rpc,        \* reader -> position inside load_cache
    rfd,        \* reader -> inode held open for reading
    rbuf,       \* reader -> what f.read() has gathered so far
    rres,       \* reader -> the value load_cache returned
    \* ---- the history store (SpecHistory, SpecQuery, SpecApi)
    now,        \* the wall clock, in time units
    db,         \* the SQLite file: whether it exists, and the snapshots table
    keep_days,  \* cfg["history_keep_days"]
    hist,       \* the last write_history call: whether it has just returned,
                \* whether it committed, and the table as it found it
    \* ---- the API (SpecQuery, SpecApi)
    api_key,    \* cfg["api_key"] of the API process
    engine,     \* "http" or "flask"
    req,        \* the request being served (NoReq before the first)
    resp,       \* the response to it
    \* ---- the processes (SpecLoop, SpecStart)
    committed,  \* the snapshot of the last write_cache call that succeeded
    loop,       \* the collector's main: its arguments, its position in the
                \* loop, the start of this cycle and of the one before
                \* (prev), how long the last finished cycle's work took, the
                \* calls made, its exit status
    cfgfile,    \* the configuration file atlas.json
    apicfg,     \* the configuration the API process loaded at its start
    apiproc     \* the API process: position in main, exit status, requests

collectVars == <<cfg, faults, stats>>
cacheVars   == <<dir, inodes, wpc, wstats, wfd, written, cycle>>
readerVars  == <<rpc, rfd, rbuf, rres>>
histVars    == <<now, db, keep_days, hist>>
apiVars     == <<api_key, engine, req, resp>>
procVars    == <<committed, loop, cfgfile, apicfg, apiproc>>
vars        == <<collectVars, cacheVars, readerVars, histVars, apiVars,
                 procVars>>

-----------------------------------------------------------------------------
(* Bounds of the model.                                                    *)

\* At most this many configuration keys differ from DEFAULT_CONFIG
\* (overridden by the user's file, or missing from the mapping).
MaxOverrides == 2
\* At most this many collectors fail in one cycle.
MaxFaults == 1
\* Cycles the collector runs in Spec.
MaxCycles == 2
\* Concurrent readers of the cache file.
NReaders == 2

-----------------------------------------------------------------------------
(* Python values.                                                          *)

\* Python's None, and a raised exception as the outcome of a call.
\* They stand where a dict may stand, and are shaped like one (a sequence of
\* items) so that they can be told from one: no snapshot has these keys.
None   == << <<"None", "None">> >>
Raised == << <<"Raised", "Raised">> >>
NotRun == << <<"NotRun", "NotRun">> >>
\* An exception leaving a collector, in place of the payload it would return.
Raises == [raised |-> "Exception"]

\* dict.get(key, default)
CfgGet(c, k, d) == IF k \in DOMAIN c THEN c[k] ELSE d

\* A dict whose values have different shapes (a snapshot) is kept as Python
\* keeps it: the sequence of its (key, value) items in insertion order.
Keys(d)    == {d[i][1] : i \in 1..Len(d)}
KeyList(d) == [i \in 1..Len(d) |-> d[i][1]]
HasKey(d, k) == \E i \in 1..Len(d) : d[i][1] = k
Get(d, k)  == d[CHOOSE i \in 1..Len(d) : d[i][1] = k][2]

-----------------------------------------------------------------------------
(* Time and its two text forms.                                            *)

\* Time units per day: a timestamp is <<day, time of day>>.
UnitsPerDay == 2

\* The character between date and time: 'T' (0x54) in datetime.isoformat(),
\* ' ' (0x20) in SQLite's datetime().  Texts are compared character by
\* character, so the separator takes part in every comparison.
SepT     == 84
SepSpace == 32

\* datetime.now(timezone.utc).isoformat(): "YYYY-MM-DDTHH:MM:SS.ffffff+00:00"
isoformat(t) == <<t \div UnitsPerDay, SepT, t % UnitsPerDay>>

\* SQLite datetime(t): "YYYY-MM-DD HH:MM:SS"
sqlite_datetime(t) == <<t \div UnitsPerDay, SepSpace, t % UnitsPerDay>>

\* The instant a text stands for, whichever separator it uses.
TimeOf(text) == text[1] * UnitsPerDay + text[3]

\* SQLite's comparison of two TEXT values (BINARY collation): the first
\* differing character decides.
TextLess(a, b) ==
    \/ a[1] < b[1]
    \/ a[1] = b[1] /\ a[2] < b[2]
    \/ a[1] = b[1] /\ a[2] = b[2] /\ a[3] < b[3]

-----------------------------------------------------------------------------
(* collector.py: the configuration.                                        *)

\* The sections in the order collect_all fills them.
Sections == <<"cpu", "ram", "disk", "network", "temperature", "uptime",
              "os", "hardware", "processes", "users", "battery", "gpu">>
SectionSet == {Sections[i] : i \in 1..Len(Sections)}

\* The configuration flag collect_all consults for each section.
FlagOf(s) ==
    CASE s = "cpu"         -> "collect_cpu"
      [] s = "ram"         -> "collect_ram"
      [] s = "disk"        -> "collect_disk"
      [] s = "network"     -> "collect_network"
      [] s = "temperature" -> "collect_temp"
      [] s = "uptime"      -> "collect_uptime"
      [] s = "os"          -> "collect_os"
      [] s = "hardware"    -> "collect_hardware"
      [] s = "processes"   -> "collect_processes"
      [] s = "users"       -> "collect_users"
      [] s = "battery"     -> "collect_battery"
      [] s = "gpu"         -> "collect_gpu"
FlagKeys == {FlagOf(s) : s \in SectionSet}

\* The defaults with network taken for a section that is on by default.
FlagDefaultNetworkOn(s) == s \in {"cpu", "ram", "disk", "network"}
\* The default collect_all passes to cfg.get for the section's flag.
FlagDefault(s) == s \in {"cpu", "ram", "disk"}

\* DEFAULT_CONFIG, the collector flags of it.
DEFAULT_CONFIG == [k \in FlagKeys |->
                     k \in {"collect_cpu", "collect_ram", "collect_disk"}]

MetaKeys == {"atlas_version", "collected_at", "hostname"}
HostName == "host"
ErrMsg   == "str(e)"


-----------------------------------------------------------------------------
(* collector.py: the collectors.                                           *)
(*                                                                         *)
(* What goes wrong inside a collector during a cycle is one of             *)
(*   "none"   nothing;                                                     *)
(*   "outer"  an Exception raised where only the collector's outermost     *)
(*            try/except encloses it;                                      *)
(*   "inner"  an exception raised inside one of the collector's own        *)
(*            narrower handlers (PermissionError from disk_usage, a        *)
(*            missing nvidia-smi, an unreadable thermal zone, ...).        *)
(* v is the reading the system gives during the cycle.                     *)

\* The collectors that have a handler of their own inside the outer one.
InnerHandled == {"cpu", "disk", "temperature", "hardware", "processes", "gpu"}
FaultKinds(s) == IF s \in InnerHandled THEN {"none", "outer", "inner"}
                                       ELSE {"none", "outer"}

\* except Exception as e: return {"error": str(e)}
ErrorPayload == [error |-> ErrMsg]

\* _cpu_model swallows its own failure and answers "Unknown".
collect_cpu(f, v) ==
    CASE f = "outer" -> ErrorPayload
      [] f = "inner" -> [percent |-> v, model |-> "Unknown"]
      [] OTHER       -> [percent |-> v, model |-> "cpu-model"]

\* The same collector without its outermost handler: the exception leaves it.
collect_ram_unguarded(f, v) ==
    IF f = "outer" THEN Raises ELSE [percent |-> v]

collect_ram(f, v) ==
    IF f = "outer" THEN ErrorPayload ELSE [percent |-> v]

\* A PermissionError from disk_usage drops the partition and nothing else.
collect_disk(f, v) ==
    CASE f = "outer" -> ErrorPayload
      [] f = "inner" -> [partitions |-> <<>>, io_read_mb |-> v]
      [] OTHER       -> [partitions |-> <<[mountpoint |-> "/", percent |-> v]>>,
                         io_read_mb |-> v]

collect_network(f, v) ==
    IF f = "outer" THEN ErrorPayload ELSE [sent_total_mb |-> v]

\* No sensor readable (AttributeError, unreadable zone): the documented note.
collect_temperature(f, v) ==
    CASE f = "outer" -> ErrorPayload
      [] f = "inner" -> [note |-> "No sensors detected"]
      [] OTHER       -> [thermal_zones |-> <<v>>]

collect_uptime(f, v) ==
    IF f = "outer" THEN ErrorPayload ELSE [uptime_seconds |-> v]

collect_os(f, v) ==
    IF f = "outer" THEN ErrorPayload ELSE [system |-> "Linux"]

\* dmidecode and /proc/cpuinfo failures are passed over.
collect_hardware(f, v) ==
    CASE f = "outer" -> ErrorPayload
      [] f = "inner" -> [note |-> "Limited - dmidecode may need sudo"]
      [] OTHER       -> [manufacturer |-> "vendor"]

\* NoSuchProcess / AccessDenied skip the process.
collect_processes(f, v) ==
    CASE f = "outer" -> ErrorPayload
      [] f = "inner" -> [total |-> 1, running |-> 1]
      [] OTHER       -> [total |-> 2, running |-> 1]

collect_users(f, v) ==
    IF f = "outer" THEN ErrorPayload ELSE [count |-> 1]

collect_battery(f, v) ==
    IF f = "outer" THEN ErrorPayload ELSE [present |-> FALSE]

\* except FileNotFoundError: return {"gpus": [], "note": "No GPU tools found"}
collect_gpu(f, v) ==
    CASE f = "outer" -> ErrorPayload
      [] f = "inner" -> [gpus |-> <<>>, note |-> "No GPU tools found"]
      [] OTHER       -> [gpus |-> <<[name |-> "gpu0"]>>]

\* The call collect_all makes for section s.
Collect(s, f, v) ==
    CASE s = "cpu"         -> collect_cpu(f, v)
      [] s = "ram"         -> collect_ram(f, v)
      [] s = "disk"        -> collect_disk(f, v)
      [] s = "network"     -> collect_network(f, v)
      [] s = "temperature" -> collect_temperature(f, v)
      [] s = "uptime"      -> collect_uptime(f, v)
      [] s = "os"          -> collect_os(f, v)
      [] s = "hardware"    -> collect_hardware(f, v)
      [] s = "processes"   -> collect_processes(f, v)
      [] s = "users"       -> collect_users(f, v)
      [] s = "battery"     -> collect_battery(f, v)
      [] s = "gpu"         -> collect_gpu(f, v)

\* if cfg.get("collect_<s>", <default>):
Enabled(c, s) == CfgGet(c, FlagOf(s), FlagDefault(s))

\* The statements of collect_all from section i on; acc is stats so far.
\* collect_all has no handler of its own: an exception leaving a collector
\* leaves collect_all, and the later collectors are not called.
RECURSIVE CollectFrom(_, _, _, _, _)
CollectFrom(i, acc, c, fl, v) ==
    IF i > Len(Sections) THEN acc
    ELSE IF ~Enabled(c, Sections[i]) THEN CollectFrom(i + 1, acc, c, fl, v)
    ELSE LET p == Collect(Sections[i], fl[Sections[i]], v)
         IN  IF p = Raises THEN Raised
             ELSE CollectFrom(i + 1, Append(acc, <<Sections[i], p>>), c, fl, v)

\* collect_all(cfg) at time t.
collect_all(c, fl, t, v) ==
    CollectFrom(1, << <<"atlas_version", "2.1.0">>,
                      <<"collected_at",  isoformat(t)>>,
                      <<"hostname",      HostName>> >>, c, fl, v)

NoFaults == [s \in SectionSet |-> "none"]

-----------------------------------------------------------------------------
(* Idle values: what a specification gives the variables it does not use.  *)

Readers == 1..NReaders

IdleCollect == cfg = DEFAULT_CONFIG /\ faults = NoFaults /\ stats = NotRun
IdleCache   == /\ dir = [p \in {"cache", "tmp"} |-> 0]
               /\ inodes = <<>>
               /\ wpc = "idle" /\ wstats = NotRun /\ wfd = 0
               /\ written = {} /\ cycle = 0
IdleReaders == /\ rpc  = [r \in Readers |-> "idle"]
               /\ rfd  = [r \in Readers |-> 0]
               /\ rbuf = [r \in Readers |-> <<>>]
               /\ rres = [r \in Readers |-> NotRun]
IdleHist    == /\ now = 0
               /\ db = [exists |-> FALSE, rows |-> {}]
               /\ keep_days = 7
               /\ hist = [fresh |-> FALSE, ok |-> FALSE, before |-> {}]
\* A request: the path (its segments, and whether a slash ends it), the key
\* header (the name as the client spelled it, and its value), the key and
\* limit parameters of the query string.  A header or parameter the request
\* does not carry is Absent.
Absent    == [kind |-> "absent", val |-> 0]
AbsentKey == [kind |-> "absent", val |-> ""]
NoReq  == [path |-> <<>>, slash |-> FALSE, hname |-> <<>>, hval |-> "",
           qkey |-> AbsentKey, limit |-> Absent]
NoResp == [status |-> 0, body |-> [error |-> ""]]
IdleApi     == api_key = "" /\ engine = "http" /\ req = NoReq /\ resp = NoResp
\* The collector's main before it runs: no call made, no exit status.
NoCalls == [collect_all |-> 0, write_cache |-> 0, write_history |-> 0]
\* The calls of the cycle under way: how many write_cache and write_history
\* calls it has made and the snapshot each was given.
NoCycle == [write_cache |-> 0, write_history |-> 0,
            carg |-> NotRun, harg |-> NotRun]
NoLoop  == [pc |-> "boot", once |-> FALSE, exit |-> -1, start |-> 0,
            prev |-> -1, took |-> -1, sleep |-> -1,
            failed |-> FALSE, lastfailed |-> FALSE,
            runs |-> 0, calls |-> NoCalls,
            this |-> NoCycle, inserted |-> 0, hfailed |-> 0]
\* The configuration file: missing, unreadable, not JSON, a JSON value that
\* is no object, or an object (doc: key -> value).
NoFile  == [kind |-> "missing", doc |-> <<>>]
\* The API process before load_config has run.
NotLoaded == <<>>
\* The API process before its main runs: no listener, no exit status, no
\* request served.
NoApiProc == [pc |-> "boot", exit |-> -1, listening |-> FALSE, served |-> 0,
              argengine |-> "", flask |-> FALSE, bind |-> TRUE]
IdleProc    == /\ committed = NotRun /\ loop = NoLoop
               /\ cfgfile = NoFile /\ apicfg = NotLoaded
               /\ apiproc = NoApiProc

-----------------------------------------------------------------------------
(* SpecCollect: one call of collect_all.                                   *)

\* DEFAULT_CONFIG with at most MaxOverrides flags changed, each changed flag
\* either set to the other value by the user's file or missing from the
\* mapping (collect_all then falls back on the default it passes to get).
Configs ==
    UNION { { [k \in FlagKeys \ gone |->
                 IF k \in chg THEN ~DEFAULT_CONFIG[k] ELSE DEFAULT_CONFIG[k]]
              : gone \in SUBSET chg }
            : chg \in {T \in SUBSET FlagKeys : Cardinality(T) <= MaxOverrides} }

\* At most MaxFaults collectors fail, each in one of the ways open to it.
FaultChoices ==
    UNION { { [s \in SectionSet |->
                 IF s \in inner THEN "inner"
                 ELSE IF s \in bad THEN "outer" ELSE "none"]
              : inner \in SUBSET (bad \cap InnerHandled) }
            : bad \in {T \in SUBSET SectionSet : Cardinality(T) <= MaxFaults} }

InitCollect ==
    /\ cfg \in Configs
    /\ faults \in FaultChoices
    /\ stats = NotRun
    /\ IdleCache /\ IdleReaders /\ IdleHist /\ IdleApi
    /\ IdleProc

\* stats = collect_all(cfg)
CollectAll ==
    /\ stats = NotRun
    /\ stats' = collect_all(cfg, faults, now, 1)
    /\ UNCHANGED <<cfg, faults, cacheVars, readerVars, histVars, apiVars>>
    /\ UNCHANGED procVars

NextCollect == CollectAll
SpecCollect == InitCollect /\ [][NextCollect]_vars

-----------------------------------------------------------------------------
(* Claims about collect_all (SpecCollect).                                 *)

\* The enable flag of section s as the configuration document defines it:
\* the value in the mapping, and when the flag is missing, true for cpu, ram
\* and disk and false for every other section.
FlagIsTrue(c, s) ==
    IF FlagOf(s) \in DOMAIN c THEN c[FlagOf(s)]
    ELSE s \in {"cpu", "ram", "disk"}
EnabledSections(c) == {s \in SectionSet : FlagIsTrue(c, s)}

Returned == stats # NotRun /\ stats # Raised

\* Every enabled collector other than x has its entry in the snapshot.
OthersPresent(x) ==
    \A y \in EnabledSections(cfg) \ {x} : HasKey(stats, y)

\* C2 as stated: whenever an enabled collector X fails internally, every
\* other enabled collector still has its payload in the snapshot, X's entry
\* is exactly {error: <message>}, and nothing propagates out of collect_all.
C2_AnyFailureIsErrorPayload ==
    stats # NotRun =>
        /\ stats # Raised
        /\ \A x \in EnabledSections(cfg) :
             faults[x] # "none" =>
                 OthersPresent(x) /\ Get(stats, x) = [error |-> ErrMsg]

\* C2 amended: a failure never propagates out of collect_all and never costs
\* another enabled collector its entry; X's entry is exactly {error: <message>}
\* when the exception reaches X's outermost handler, and is X's own payload
\* without an error field when a narrower handler of X absorbs it.
C2_SectionIsolation ==
    stats # NotRun =>
        /\ stats # Raised
        /\ \A x \in EnabledSections(cfg) :
             /\ faults[x] # "none" => OthersPresent(x) /\ HasKey(stats, x)
             /\ faults[x] = "outer" => Get(stats, x) = [error |-> ErrMsg]
             /\ faults[x] = "inner" => "error" \notin DOMAIN Get(stats, x)

\* An enabled collector failed in its outermost handler next to two healthy
\* enabled ones, and collect_all returned.
C2_Witness ==
    /\ Returned
    /\ \E x \in EnabledSections(cfg) :
         /\ faults[x] = "outer"
         /\ Get(stats, x) = [error |-> ErrMsg]
         /\ Cardinality(EnabledSections(cfg) \ {x}) >= 2

\* C3: the section names of the snapshot are exactly the sections whose
\* enable flag is true (each once, none null), next to the three metadata
\* keys; with only cpu, ram and disk enabled the keys are exactly
\* atlas_version, collected_at, hostname, cpu, ram, disk.
C3_SectionsAreExactlyEnabled ==
    Returned =>
        /\ Keys(stats) = MetaKeys \cup EnabledSections(cfg)
        /\ Len(stats) = Cardinality(Keys(stats))
        /\ EnabledSections(cfg) = {"cpu", "ram", "disk"} =>
             Keys(stats) = {"atlas_version", "collected_at", "hostname",
                            "cpu", "ram", "disk"}

\* A snapshot was produced for a configuration that enables an optional
\* section and leaves a flag out of the mapping.
C3_Witness ==
    /\ Returned
    /\ \E s \in EnabledSections(cfg) : s \notin {"cpu", "ram", "disk"}
    /\ DOMAIN cfg # FlagKeys

-----------------------------------------------------------------------------
(* The cache file: json.dump, json.load and the file system.               *)

\* json.dump(stats, f): the text it writes, as the sequence of its tokens.
OpenTok  == <<"{">>
CloseTok == <<"}">>
json_dump(d) ==
    <<OpenTok>> \o [i \in 1..Len(d) |-> <<"item", d[i][1], d[i][2]>>]
                \o <<CloseTok>>

\* json.load(f) of a text: the dict, or a JSONDecodeError when the text is
\* not one complete document.
json_load(text) ==
    IF /\ Len(text) >= 2
       /\ text[1] = OpenTok
       /\ text[Len(text)] = CloseTok
       /\ \A i \in 2..(Len(text) - 1) : Len(text[i]) = 3
    THEN [i \in 1..(Len(text) - 2) |-> <<text[i + 1][2], text[i + 1][3]>>]
    ELSE Raised

\* The two paths of the cache directory.
CACHE_FILE == "cache"
\* A write_cache that writes the cache file in place.
TmpInPlace == CACHE_FILE
\* tmp = CACHE_FILE + ".tmp"
TmpPath == "tmp"

\* Inode numbers: one per path and one per open reader at most.
Inos == 1..(NReaders + 2)

\* The inodes some path or some open file refers to.
Referenced(d, w, rf) ==
    {d[p] : p \in DOMAIN d} \cup {w} \cup {rf[r] : r \in Readers}

\* The kernel frees an inode once nothing refers to it.
Sweep(ino, d, w, rf) ==
    [i \in Inos |-> IF i \in Referenced(d, w, rf) THEN ino[i] ELSE <<>>]

FreeIno(d, w, rf) == CHOOSE i \in Inos : i \notin Referenced(d, w, rf)

\* os.replace(src, dst): dst names src's inode, src is gone; atomic.
DirReplace(d, src, dst) ==
    IF src = dst THEN d ELSE [d EXCEPT ![dst] = d[src], ![src] = 0]

InitFiles ==
    /\ dir = [p \in {CACHE_FILE, "tmp"} |-> 0]
    /\ inodes = [i \in Inos |-> <<>>]

-----------------------------------------------------------------------------
(* Spec: the collector's write_cache against concurrent load_cache calls.  *)

\* main: stats = collect_all(cfg); write_cache(stats).  The readings differ
\* from cycle to cycle, and so does collected_at.
StartCycle ==
    /\ wpc = "idle"
    /\ cycle < MaxCycles
    /\ cycle' = cycle + 1
    /\ wstats' = collect_all(DEFAULT_CONFIG, NoFaults, cycle', cycle')
    /\ written' = written \cup {wstats'}
    /\ wpc' = "open"
    /\ UNCHANGED <<dir, inodes, wfd>>
    /\ UNCHANGED <<collectVars, readerVars, histVars, apiVars>>
    /\ UNCHANGED procVars

\* with open(tmp, "w") as f: creates the file or truncates the one there.
WriteOpen ==
    /\ wpc = "open"
    /\ LET i == IF dir[TmpPath] = 0 THEN FreeIno(dir, wfd, rfd)
                                     ELSE dir[TmpPath]
       IN  /\ dir' = [dir EXCEPT ![TmpPath] = i]
           /\ inodes' = [inodes EXCEPT ![i] = <<>>]
           /\ wfd' = i
    /\ wpc' = "dump"
    /\ UNCHANGED <<wstats, written, cycle>>
    /\ UNCHANGED <<collectVars, readerVars, histVars, apiVars>>
    /\ UNCHANGED procVars

\* json.dump(stats, f, indent=2): the buffered text reaches the file in one
\* or more writes; the last of them, at the latest when the with block
\* closes the file, completes the text.
WriteDump ==
    /\ wpc = "dump"
    /\ LET text == json_dump(wstats)
       IN  \E n \in (Len(inodes[wfd]) + 1)..Len(text) :
             /\ inodes' = [inodes EXCEPT ![wfd] = SubSeq(text, 1, n)]
             /\ IF n = Len(text)
                THEN wpc' = "replace" /\ wfd' = 0
                ELSE wpc' = "dump" /\ wfd' = wfd
    /\ UNCHANGED <<dir, wstats, written, cycle>>
    /\ UNCHANGED <<collectVars, readerVars, histVars, apiVars>>
    /\ UNCHANGED procVars

\* os.replace(tmp, CACHE_FILE)
WriteReplace ==
    /\ wpc = "replace"
    /\ dir' = DirReplace(dir, TmpPath, CACHE_FILE)
    /\ inodes' = Sweep(inodes, dir', wfd, rfd)
    /\ wpc' = "idle"
    /\ UNCHANGED <<wstats, wfd, written, cycle>>
    /\ UNCHANGED <<collectVars, readerVars, histVars, apiVars>>
    /\ committed' = wstats
    /\ UNCHANGED <<loop, cfgfile, apicfg, apiproc>>

\* A handler that removes the cache file when the write failed.
WriteFailUnlinks ==
    /\ wpc \in {"open", "dump", "replace"}
    /\ wpc' = "idle"
    /\ wfd' = 0
    /\ dir' = [dir EXCEPT ![CACHE_FILE] = 0]
    /\ inodes' = Sweep(inodes, dir', 0, rfd)
    /\ UNCHANGED <<wstats, written, cycle>>
    /\ UNCHANGED <<collectVars, readerVars, histVars, apiVars>>
    /\ UNCHANGED procVars

\* except Exception as e: print(...).  open, a write or the replace raised
\* (disk full, permission): write_cache returns, and what was written to the
\* temporary file so far stays where it is.
WriteFail ==
    /\ wpc \in {"open", "dump", "replace"}
    /\ wpc' = "idle"
    /\ wfd' = 0
    /\ UNCHANGED <<dir, inodes, wstats, written, cycle>>
    /\ UNCHANGED <<collectVars, readerVars, histVars, apiVars>>
    /\ UNCHANGED procVars

\* load_cache: if not os.path.exists(CACHE_FILE): return None
ReadExists(r) ==
    /\ rpc[r] = "idle"
    /\ IF dir[CACHE_FILE] = 0
       THEN rpc' = [rpc EXCEPT ![r] = "done"] /\ rres' = [rres EXCEPT ![r] = None]
       ELSE rpc' = [rpc EXCEPT ![r] = "open"] /\ UNCHANGED rres
    /\ UNCHANGED <<rfd, rbuf>>
    /\ UNCHANGED <<collectVars, cacheVars, histVars, apiVars>>
    /\ UNCHANGED procVars

\* with open(CACHE_FILE) as f: a missing file raises, and load_cache
\* returns None.
ReadOpen(r) ==
    /\ rpc[r] = "open"
    /\ IF dir[CACHE_FILE] = 0
       THEN /\ rpc' = [rpc EXCEPT ![r] = "done"]
            /\ rres' = [rres EXCEPT ![r] = None]
            /\ UNCHANGED rfd
       ELSE /\ rpc' = [rpc EXCEPT ![r] = "read"]
            /\ rfd' = [rfd EXCEPT ![r] = dir[CACHE_FILE]]
            /\ UNCHANGED rres
    /\ rbuf' = [rbuf EXCEPT ![r] = <<>>]
    /\ UNCHANGED <<collectVars, cacheVars, histVars, apiVars>>
    /\ UNCHANGED procVars

\* return json.load(f): f.read() gathers the file from the reader's offset
\* in one or more reads, each returning some of what the inode holds there
\* at that moment, until a read finds nothing more; then the text is parsed,
\* and a text that does not parse makes load_cache return None.
ReadChunk(r) ==
    /\ rpc[r] = "read"
    /\ LET off  == Len(rbuf[r])
           data == inodes[rfd[r]]
       IN  IF off >= Len(data)
           THEN /\ rres' = [rres EXCEPT ![r] =
                       IF json_load(rbuf[r]) = Raised THEN None
                                                      ELSE json_load(rbuf[r])]
                /\ rpc' = [rpc EXCEPT ![r] = "done"]
                /\ rfd' = [rfd EXCEPT ![r] = 0]
                /\ rbuf' = [rbuf EXCEPT ![r] = <<>>]
                /\ inodes' = Sweep(inodes, dir, wfd, rfd')
           ELSE /\ \E n \in (off + 1)..Len(data) :
                     rbuf' = [rbuf EXCEPT ![r] = rbuf[r] \o SubSeq(data, off + 1, n)]
                /\ UNCHANGED <<rpc, rfd, rres, inodes>>
    /\ UNCHANGED <<dir, wpc, wstats, wfd, written, cycle>>
    /\ UNCHANGED <<collectVars, histVars, apiVars>>
    /\ UNCHANGED procVars

\* The caller has its answer; the reader is free for the next request.
ReadReturn(r) ==
    /\ rpc[r] = "done"
    /\ rpc' = [rpc EXCEPT ![r] = "idle"]
    /\ rres' = [rres EXCEPT ![r] = NotRun]
    /\ UNCHANGED <<rfd, rbuf>>
    /\ UNCHANGED <<collectVars, cacheVars, histVars, apiVars>>
    /\ UNCHANGED procVars

Init ==
    /\ InitFiles
    /\ wpc = "idle" /\ wstats = NotRun /\ wfd = 0
    /\ written = {} /\ cycle = 0
    /\ IdleCollect /\ IdleReaders /\ IdleHist /\ IdleApi
    /\ IdleProc

Next ==
    \/ StartCycle
    \/ WriteOpen
    \/ WriteDump
    \/ WriteReplace
    \/ WriteFail
    \/ \E r \in Readers : ReadExists(r)
    \/ \E r \in Readers : ReadOpen(r)
    \/ \E r \in Readers : ReadChunk(r)
    \/ \E r \in Readers : ReadReturn(r)

Spec == Init /\ [][Next]_vars

\* C1: whatever the interleaving of the collector's write_cache with the
\* readers' load_cache, a value load_cache returns is None or a snapshot that
\* a write_cache call was given: never part of one, never a mix of two.
C1_ReadsAreAtomic ==
    \A r \in Readers :
        rpc[r] = "done" => rres[r] = None \/ rres[r] \in written

\* A reader that found the file before a later write_cache replaced it
\* returned the complete earlier snapshot while the later one was in flight
\* or in place.
C1_Witness ==
    \E r \in Readers :
        /\ rpc[r] = "done"
        /\ rres[r] \in written
        /\ rres[r] # wstats
        /\ wpc \in {"dump", "replace"}

-----------------------------------------------------------------------------
(* The history store: the snapshots table of atlas.db.                     *)
(*                                                                         *)
(* The table is kept as the set of its distinct collected_at values, each  *)
(* with the number n of rows that carry it (rows written within one time   *)
(* unit carry the same model timestamp).                                   *)

RowCount(rows) ==
    LET RECURSIVE Sum(_)
        Sum(S) == IF S = {} THEN 0
                  ELSE LET r == CHOOSE x \in S : TRUE
                       IN  r.n + Sum(S \ {r})
    IN  Sum(rows)

\* INSERT INTO snapshots (collected_at, ...) VALUES (?, ...): one more row.
InsertRow(rows, text) ==
    IF \E r \in rows : r.collected_at = text
    THEN {IF r.collected_at = text THEN [r EXCEPT !.n = r.n + 1] ELSE r
          : r \in rows}
    ELSE rows \cup {[collected_at |-> text, n |-> 1]}

\* A write_history that never runs the DELETE: the table only grows.
DeleteOldSkipped(rows, k, t) == rows

\* DELETE FROM snapshots WHERE collected_at < datetime('now', '-<k> days'):
\* the stored TEXT is compared with the TEXT datetime() returns.
DeleteOld(rows, k, t) ==
    {r \in rows :
        ~TextLess(r.collected_at, sqlite_datetime(t - k * UnitsPerDay))}

\* write_history(stats, keep_days) at time t, when no statement fails:
\* connect (creating the file), create the table, insert, delete, commit.
write_history(d, st, k, t) ==
    [exists |-> TRUE,
     rows   |-> DeleteOld(InsertRow(d.rows, Get(st, "collected_at")), k, t)]

\* SELECT ... FROM snapshots ORDER BY collected_at DESC LIMIT ?
\* A negative LIMIT is no limit at all in SQLite.
RECURSIVE OrderByDesc(_)
OrderByDesc(rows) ==
    IF rows = {} THEN <<>>
    ELSE LET top == CHOOSE r \in rows :
                      \A o \in rows : ~TextLess(r.collected_at, o.collected_at)
         IN  <<top>> \o OrderByDesc(rows \ {top})

RECURSIVE Limit(_, _)
Limit(sorted, k) ==
    IF k < 0 THEN sorted
    ELSE IF k = 0 \/ sorted = <<>> THEN <<>>
    ELSE IF Head(sorted).n >= k THEN <<[Head(sorted) EXCEPT !.n = k]>>
    ELSE <<Head(sorted)>> \o Limit(Tail(sorted), k - Head(sorted).n)

SelectNewest(rows, k) == Limit(OrderByDesc(rows), k)

SeqCount(runs) ==
    LET RECURSIVE Sum(_)
        Sum(q) == IF q = <<>> THEN 0 ELSE Head(q).n + Sum(Tail(q))
    IN  Sum(runs)

\* A request parameter is a text: the decimal text of an integer, or a text
\* int() cannot parse.  IntText(n) is the text str(n).
IntText(n) == [kind |-> "int", val |-> n]
JunkText   == [kind |-> "junk", val |-> 0]
\* The empty text of a parameter given as "limit=".
BlankText  == [kind |-> "blank", val |-> 0]

\* limit = min(int(limit), 1000)
HISTORY_LIMIT_MAX == 1000
\* make_history_response(limit=100); params.get("limit", 100)
DEFAULT_LIMIT == 100
Min(a, b) == IF a < b THEN a ELSE b

HistoryBody(d, lim) ==
    [count     |-> SeqCount(SelectNewest(d.rows, lim)),
     limit     |-> lim,
     snapshots |-> SelectNewest(d.rows, lim)]

\* make_history_response with the clamp left out: limit = int(limit).
make_history_response_unclamped(d, limit) ==
    IF ~d.exists
    THEN [status |-> 404, body |-> [error |-> "History not enabled or no data yet"]]
    ELSE IF limit.kind # "int"
    THEN [status |-> 500, body |-> [error |-> "invalid literal for int()"]]
    ELSE [status |-> 200, body |-> HistoryBody(d, limit.val)]

\* make_history_response(limit): (status, body).  int() of a text that is
\* no integer raises ValueError inside the try: 500.
make_history_response(d, limit) ==
    IF ~d.exists
    THEN [status |-> 404, body |-> [error |-> "History not enabled or no data yet"]]
    ELSE IF limit.kind # "int"
    THEN [status |-> 500, body |-> [error |-> "invalid literal for int()"]]
    ELSE [status |-> 200,
          body   |-> HistoryBody(d, Min(limit.val, HISTORY_LIMIT_MAX))]

-----------------------------------------------------------------------------
(* SpecHistory: the collector's cycles with history enabled, under a       *)
(* moving clock.                                                           *)

\* The retention window of the default configuration.
DEFAULT_KEEP_DAYS == 7
\* The retention windows tried.
KeepDaysChoices == {1, 2, DEFAULT_KEEP_DAYS}
\* The clock stops two days past the default retention window.
MaxTime == (DEFAULT_KEEP_DAYS + 2) * UnitsPerDay
\* Cycles run in one behaviour.
MaxWrites == 3

InitHistory ==
    /\ now = 0
    /\ db = [exists |-> FALSE, rows |-> {}]
    /\ keep_days \in KeepDaysChoices
    /\ hist = [fresh |-> FALSE, ok |-> FALSE, before |-> {}]
    /\ IdleCollect /\ IdleCache /\ IdleReaders /\ IdleApi
    /\ IdleProc

\* Time passes.
Tick ==
    /\ now < MaxTime
    /\ now' = now + 1
    /\ hist' = [fresh |-> FALSE, ok |-> FALSE, before |-> {}]
    /\ UNCHANGED <<db, keep_days>>
    /\ UNCHANGED <<collectVars, cacheVars, readerVars, apiVars>>
    /\ UNCHANGED procVars

\* main: stats = collect_all(cfg); ...; if cfg.get("history_enabled"):
\* write_history(stats, cfg.get("history_keep_days", 7))
HistoryCycle ==
    /\ cycle < MaxWrites
    /\ cycle' = cycle + 1
    /\ db' = write_history(db, collect_all(cfg, faults, now, 1), keep_days, now)
    /\ hist' = [fresh |-> TRUE, ok |-> TRUE, before |-> db.rows]
    /\ UNCHANGED <<now, keep_days>>
    /\ UNCHANGED <<dir, inodes, wpc, wstats, wfd, written>>
    /\ UNCHANGED <<collectVars, readerVars, apiVars>>
    /\ UNCHANGED procVars

\* except Exception as e: print(f"[ATLAS] History error: {e}"): a statement
\* failed (database locked, disk full), nothing was committed.
HistoryError ==
    /\ cycle < MaxWrites
    /\ cycle' = cycle + 1
    /\ hist' = [fresh |-> TRUE, ok |-> FALSE, before |-> db.rows]
    /\ UNCHANGED <<now, db, keep_days>>
    /\ UNCHANGED <<dir, inodes, wpc, wstats, wfd, written>>
    /\ UNCHANGED <<collectVars, readerVars, apiVars>>
    /\ UNCHANGED procVars

NextHistory == Tick \/ HistoryCycle \/ HistoryError
SpecHistory == InitHistory /\ [][NextHistory]_vars

\* The age of a row at time t, in time units.
Age(r, t) == t - TimeOf(r.collected_at)
Days(n) == n * UnitsPerDay

\* C4 as stated: right after a write_history call has completed, no row older
\* than keep_days days remains in the table.
C4_RetentionBound ==
    (hist.fresh /\ hist.ok) =>
        \A r \in db.rows : Age(r, now) <= Days(keep_days)

\* C5: with keep_days = 7, the rows that were 8 days old when write_history
\* ran are gone after it, and the rows that were 6 days old are all still
\* there.
C5_EightGoneSixKept ==
    (hist.fresh /\ hist.ok /\ keep_days = 7) =>
        \A r \in hist.before :
            /\ Age(r, now) = Days(8) =>
                 ~\E q \in db.rows : q.collected_at = r.collected_at
            /\ Age(r, now) = Days(6) =>
                 \E q \in db.rows : q.collected_at = r.collected_at /\ q.n >= r.n

\* One call, with keep_days = 7, found a row 8 days old and a row 6 days
\* old: it removed the first and kept the second.
C5_Witness ==
    /\ hist.fresh /\ hist.ok /\ keep_days = 7
    /\ \E r \in hist.before :
         /\ Age(r, now) = Days(8)
         /\ ~\E q \in db.rows : q.collected_at = r.collected_at
    /\ \E r \in hist.before :
         /\ Age(r, now) = Days(6)
         /\ \E q \in db.rows : q.collected_at = r.collected_at

-----------------------------------------------------------------------------
(* SpecQuery: make_history_response over stored histories.                 *)

\* Rows that carry one timestamp in a large stored history.
BulkRows == 1001
\* Distinct timestamps in a stored history.
QueryStamps == 3

\* The stored histories: the file is missing, or holds for each timestamp no
\* row, one row or BulkRows rows.
StoredHistories ==
    {[exists |-> FALSE, rows |-> {}]} \cup
    { [exists |-> TRUE,
       rows   |-> {[collected_at |-> isoformat(t), n |-> f[t]]
                   : t \in {u \in DOMAIN f : f[u] > 0}}]
      : f \in [0..(QueryStamps - 1) -> {0, 1, BulkRows}] }

\* The limits asked for: around zero, around the clamp, and no number.
QueryLimits ==
    {IntText(n) : n \in (-2..3) \cup ((HISTORY_LIMIT_MAX - 1)..(BulkRows + 1))}
    \cup {JunkText}

InitQuery ==
    /\ now = QueryStamps - 1
    /\ db \in StoredHistories
    /\ keep_days = DEFAULT_KEEP_DAYS
    /\ hist = [fresh |-> FALSE, ok |-> FALSE, before |-> {}]
    /\ IdleCollect /\ IdleCache /\ IdleReaders /\ IdleApi
    /\ IdleProc

\* code, data = make_history_response(limit)
HistoryQuery ==
    /\ resp.status = 0
    /\ \E lim \in QueryLimits :
         /\ req' = [NoReq EXCEPT !.path = <<"api", "history">>, !.limit = lim]
         /\ resp' = make_history_response(db, lim)
    /\ UNCHANGED <<api_key, engine>>
    /\ UNCHANGED <<collectVars, cacheVars, readerVars, histVars>>
    /\ UNCHANGED procVars

NextQuery == HistoryQuery
SpecQuery == InitQuery /\ [][NextQuery]_vars

Answered == resp.status # 0
Min3(a, b, c) == Min(a, Min(b, c))

\* The rows of the answer that carry the timestamp of stored row r.
Returned_n(r) ==
    LET S == resp.body.snapshots
    IN  IF \E i \in 1..Len(S) : S[i].collected_at = r.collected_at
        THEN S[CHOOSE i \in 1..Len(S) : S[i].collected_at = r.collected_at].n
        ELSE 0

\* C6: for a stored history of n rows and a limit >= 1 the answer is 200 with
\* exactly min(limit, 1000, n) rows, newest first, and no stored row left out
\* is newer than a row returned.
C6_NewestRowsClamped ==
    (Answered /\ db.exists /\ req.limit.kind = "int" /\ req.limit.val >= 1) =>
        /\ resp.status = 200
        /\ LET S == resp.body.snapshots
           IN  /\ resp.body.count =
                      Min3(req.limit.val, 1000, RowCount(db.rows))
               /\ resp.body.count = SeqCount(S)
               /\ resp.body.count <= 1000
               /\ \A i, j \in 1..Len(S) :
                      i < j => TimeOf(S[i].collected_at) > TimeOf(S[j].collected_at)
               /\ \A i \in 1..Len(S) :
                      /\ S[i].n >= 1
                      /\ \E r \in db.rows : /\ r.collected_at = S[i].collected_at
                                            /\ S[i].n <= r.n
               /\ \A r \in db.rows :
                      Returned_n(r) < r.n =>
                          \A i \in 1..Len(S) :
                              TimeOf(S[i].collected_at) >= TimeOf(r.collected_at)

\* A limit above 1000 met a history of more than 1000 rows and got 1000.
C6_Witness ==
    /\ Answered /\ db.exists
    /\ req.limit.kind = "int" /\ req.limit.val > 1000
    /\ RowCount(db.rows) > 1000
    /\ resp.status = 200 /\ resp.body.count = 1000
    /\ Len(resp.body.snapshots) >= 1

\* C7 as stated: for a limit <= 0 the answer is a success with an empty list
\* of snapshots, whatever the table holds.
C7_NonPositiveLimitIsEmpty ==
    (Answered /\ db.exists /\ req.limit.kind = "int" /\ req.limit.val <= 0) =>
        /\ resp.status = 200
        /\ resp.body.count = 0
        /\ resp.body.snapshots = <<>>

-----------------------------------------------------------------------------
(* api.py: authentication and the responses.                               *)

\* load_cache() while no write is in progress: None when the file is
\* missing or does not parse.
load_cache(d, ino) ==
    IF d[CACHE_FILE] = 0 THEN None
    ELSE IF json_load(ino[d[CACHE_FILE]]) = Raised THEN None
    ELSE json_load(ino[d[CACHE_FILE]])

\* check_key with the comparison left out.
check_key_open(provided, key) == TRUE

\* check_key(provided, cfg), key = cfg.get("api_key", "")
check_key(provided, key) ==
    IF key = "" THEN TRUE ELSE provided = key

\* A header name is the sequence of its words as the client spelled them:
\* X-ATLAS-Key is <<"X", "ATLAS", "Key">>.
HeaderUpper == <<"X", "ATLAS", "Key">>
HeaderLower == <<"x", "atlas", "key">>
HeaderTitle == <<"X", "Atlas", "Key">>

\* A dict of headers: name -> value.  dict.get finds a name only as spelled.
HeaderGet(h, name) == IF name \in DOMAIN h THEN h[name] ELSE ""

\* get_key_from_request(headers, params): the first of headers["X-ATLAS-Key"],
\* headers["x-atlas-key"] and params["key"] that is not empty (or), "" when
\* none is.
get_key_from_request(h, qkey) ==
    IF HeaderGet(h, HeaderUpper) # "" THEN HeaderGet(h, HeaderUpper)
    ELSE IF HeaderGet(h, HeaderLower) # "" THEN HeaderGet(h, HeaderLower)
    ELSE qkey.val

\* The section names of a snapshot, in its order, without the metadata keys.
Available(data) ==
    LET RECURSIVE Pick(_)
        Pick(i) == IF i > Len(data) THEN <<>>
                   ELSE IF data[i][1] \in MetaKeys THEN Pick(i + 1)
                   ELSE <<data[i][1]>> \o Pick(i + 1)
    IN  Pick(1)

\* The message of the 503 (its dash written in ASCII).
CacheNotFound == "Cache not found - is collector running?"

\* A make_stats_response that reports a cache it cannot read as a missing
\* section.
make_stats_response_absent_as_404(d, ino, section) ==
    IF load_cache(d, ino) = None
    THEN [status |-> 404,
          body |-> [error |-> "Section not found", section |-> section,
                    available |-> <<>>]]
    ELSE IF section = <<>>
    THEN [status |-> 200, body |-> load_cache(d, ino)]
    ELSE [status |-> 200,
          body |-> [section      |-> section,
                    hostname     |-> Get(load_cache(d, ino), "hostname"),
                    collected_at |-> Get(load_cache(d, ino), "collected_at"),
                    data         |-> Get(load_cache(d, ino), section[1])]]

\* make_stats_response(section); section is the text after "/api/stats/" as
\* the sequence of its "/"-separated parts, <<>> for no section.  The 404
\* message names the section: it is kept as a field of its own.
make_stats_response(d, ino, section) ==
    LET data == load_cache(d, ino)
    IN  IF data = None
        THEN [status |-> 503, body |-> [error |-> CacheNotFound]]
        ELSE IF section = <<>>
        THEN [status |-> 200, body |-> data]
        ELSE IF ~(Len(section) = 1 /\ HasKey(data, section[1]))
        THEN [status |-> 404,
              body |-> [error |-> "Section not found", section |-> section,
                        available |-> Available(data)]]
        ELSE [status |-> 200,
              body |-> [section      |-> section,
                        hostname     |-> Get(data, "hostname"),
                        collected_at |-> Get(data, "collected_at"),
                        data         |-> Get(data, section[1])]]

\* make_ping_response() at time t
make_ping_response(d, t) ==
    [status |-> 200,
     body |-> [status |-> "ok", service |-> "ATLAS", version |-> "2.1.0",
               time |-> isoformat(t), cache |-> d[CACHE_FILE] # 0]]

Unauthorized ==
    [status |-> 401,
     body   |-> [error |-> "Unauthorized - provide X-ATLAS-Key header"]]
NotFound     == [status |-> 404, body |-> [error |-> "Not found"]]

-----------------------------------------------------------------------------
(* api.py: the two transport engines.                                      *)

\* The headers of the request as a dict with the names as sent:
\* dict(self.headers) of http.server.
HeadersAsSent(r) ==
    IF r.hname = <<>> THEN <<>> ELSE (r.hname :> r.hval)

\* str.title() of one word of a header name.
TitleWord(w) ==
    CASE w \in {"X", "x"}                  -> "X"
      [] w \in {"ATLAS", "atlas", "Atlas"} -> "Atlas"
      [] w \in {"Key", "key", "KEY"}       -> "Key"
      [] OTHER                             -> w

\* dict(request.headers) of Flask: the WSGI environ keeps a header as
\* HTTP_X_ATLAS_KEY and the names are rebuilt from it in title case.
HeadersTitleCased(r) ==
    IF r.hname = <<>> THEN <<>>
    ELSE ([i \in 1..Len(r.hname) |-> TitleWord(r.hname[i])] :> r.hval)

\* parse_qs(parsed.query) drops a parameter whose value is blank.
ParseQsKey(q)   == IF q.val = "" THEN AbsentKey ELSE q
ParseQsLimit(l) == IF l.kind = "blank" THEN Absent ELSE l

\* params.get("limit", 100) / request.args.get("limit", 100)
LimitOrDefault(l) == IF l.kind = "absent" THEN IntText(DEFAULT_LIMIT) ELSE l

IsPrefix(p, q) == Len(p) <= Len(q) /\ SubSeq(q, 1, Len(p)) = p

\* A do_GET that compares the key before it looks at the path.
do_GET_key_first(key, r, d, ino, h, t) ==
    LET given == get_key_from_request(HeadersAsSent(r), ParseQsKey(r.qkey))
    IN  IF ~check_key(given, key) THEN Unauthorized
        ELSE IF r.path = <<"api", "ping">> THEN make_ping_response(d, t)
        ELSE NotFound

\* Handler.do_GET of run_http_server.  path = parsed.path.rstrip("/"): the
\* slash that ends the path is dropped before routing.
do_GET(key, r, d, ino, h, t) ==
    LET path   == r.path
        params == [key |-> ParseQsKey(r.qkey), limit |-> ParseQsLimit(r.limit)]
        given  == get_key_from_request(HeadersAsSent(r), params.key)
    IN  IF path = <<"api", "ping">> THEN make_ping_response(d, t)
        ELSE IF ~check_key(given, key) THEN Unauthorized
        ELSE IF path = <<"api", "stats">> THEN make_stats_response(d, ino, <<>>)
        ELSE IF Len(path) > 2 /\ IsPrefix(<<"api", "stats">>, path)
        THEN make_stats_response(d, ino, SubSeq(path, 3, Len(path)))
        ELSE IF path = <<"api", "history">>
        THEN make_history_response(h, LimitOrDefault(params.limit))
        ELSE NotFound

\* The routes of run_flask_server.  A rule without a final slash does not
\* match a path with one, <string:section> matches one part without "/",
\* and a path no rule matches is answered by the 404 handler before any
\* view, and so before auth(), runs.
flask_dispatch(key, r, d, ino, h, t) ==
    LET path  == r.path
        given == get_key_from_request(HeadersTitleCased(r), r.qkey)
        limit == IF r.limit.kind = "blank" THEN JunkText ELSE r.limit
    IN  IF r.slash THEN NotFound
        ELSE IF path = <<"api", "ping">> THEN make_ping_response(d, t)
        ELSE IF path = <<"api", "stats">>
        THEN IF ~check_key(given, key) THEN Unauthorized
             ELSE make_stats_response(d, ino, <<>>)
        ELSE IF Len(path) = 3 /\ IsPrefix(<<"api", "stats">>, path)
        THEN IF ~check_key(given, key) THEN Unauthorized
             ELSE make_stats_response(d, ino, <<path[3]>>)
        ELSE IF path = <<"api", "history">>
        THEN IF ~check_key(given, key) THEN Unauthorized
             ELSE make_history_response(h, LimitOrDefault(limit))
        ELSE NotFound

-----------------------------------------------------------------------------
(* SpecApi: one request served by the engine the API process runs.         *)

\* The configured secrets, and the keys a client presents.
ApiKeys       == {"", "k1"}
PresentedKeys == {"k1", "bad"}

\* The cache files the API may find: none, a truncated text, the snapshot of
\* the default configuration, a snapshot with other sections.
OtherConfig == [DEFAULT_CONFIG EXCEPT !["collect_cpu"] = FALSE,
                                      !["collect_network"] = TRUE]
CacheTexts ==
    { <<OpenTok>>,
      json_dump(collect_all(DEFAULT_CONFIG, NoFaults, 1, 1)),
      json_dump(collect_all(OtherConfig, NoFaults, 1, 1)) }

\* The history stores the API may find.
ApiHistories ==
    { [exists |-> FALSE, rows |-> {}],
      [exists |-> TRUE,  rows |-> {}],
      [exists |-> TRUE,  rows |-> {[collected_at |-> isoformat(0), n |-> 1],
                                   [collected_at |-> isoformat(1), n |-> 2]}] }

Paths == { <<>>, <<"api", "ping">>, <<"api", "stats">>, <<"api", "history">>,
           <<"api", "stats", "cpu">>, <<"api", "stats", "network">>,
           <<"api", "stats", "hostname">>, <<"api", "stats", "cpu", "percent">>,
           <<"api", "nope">> }

Requests ==
    { r \in [path  : Paths,
             slash : BOOLEAN,
             hname : {<<>>, HeaderUpper, HeaderLower, HeaderTitle},
             hval  : PresentedKeys \cup {""},
             qkey  : {AbsentKey} \cup {[kind |-> "str", val |-> k]
                                       : k \in PresentedKeys \cup {""}},
             limit : {Absent, BlankText, JunkText, IntText(2), IntText(-1)}] :
        /\ r.hname = <<>> <=> r.hval = ""
        /\ r.limit # Absent => r.path = <<"api", "history">>
        /\ r.path = <<>> => r.slash }

InitApi ==
    /\ api_key \in ApiKeys
    /\ engine \in {"http", "flask"}
    /\ req = NoReq /\ resp = NoResp
    /\ \/ InitFiles
       \/ \E text \in CacheTexts :
            /\ dir = [p \in {CACHE_FILE, "tmp"} |-> IF p = CACHE_FILE THEN 1 ELSE 0]
            /\ inodes = [i \in Inos |-> IF i = 1 THEN text ELSE <<>>]
    /\ wpc = "idle" /\ wstats = NotRun /\ wfd = 0 /\ written = {} /\ cycle = 0
    /\ now = 2
    /\ db \in ApiHistories
    /\ keep_days = DEFAULT_KEEP_DAYS
    /\ hist = [fresh |-> FALSE, ok |-> FALSE, before |-> {}]
    /\ IdleCollect /\ IdleReaders
    /\ IdleProc

\* The http engine answers a request.
ServeHttp ==
    /\ engine = "http"
    /\ resp.status = 0
    /\ \E r \in Requests :
         /\ req' = r
         /\ resp' = do_GET(api_key, r, dir, inodes, db, now)
    /\ UNCHANGED <<api_key, engine>>
    /\ UNCHANGED <<collectVars, cacheVars, readerVars, histVars>>
    /\ UNCHANGED procVars

\* The flask engine answers a request.
ServeFlask ==
    /\ engine = "flask"
    /\ resp.status = 0
    /\ \E r \in Requests :
         /\ req' = r
         /\ resp' = flask_dispatch(api_key, r, dir, inodes, db, now)
    /\ UNCHANGED <<api_key, engine>>
    /\ UNCHANGED <<collectVars, cacheVars, readerVars, histVars>>
    /\ UNCHANGED procVars

NextApi == ServeHttp \/ ServeFlask
SpecApi == InitApi /\ [][NextApi]_vars

-----------------------------------------------------------------------------
(* Claims about authentication and the engines (SpecApi).                  *)

\* The request addresses /api/stats, /api/stats/{section} or /api/history.
Protected(r) ==
    /\ ~r.slash
    /\ \/ r.path = <<"api", "stats">>
       \/ r.path = <<"api", "history">>
       \/ Len(r.path) = 3 /\ IsPrefix(<<"api", "stats">>, r.path)

\* The request presents k somewhere: in the key header, however the client
\* spelled its name, or in the key parameter.
Presents(r, k) ==
    \/ r.hname # <<>> /\ r.hval = k
    \/ r.qkey.kind = "str" /\ r.qkey.val = k

\* C8: with no api_key configured no request is answered 401; with one
\* configured, a request to a protected endpoint that does not present it
\* (no key, or only other keys) is answered 401 with the error body alone,
\* in both engines and whatever the cache and the history hold.
C8_AuthSymmetry ==
    Answered =>
        /\ api_key = "" => resp.status # 401
        /\ (api_key # "" /\ Protected(req) /\ ~Presents(req, api_key)) =>
               /\ resp.status = 401
               /\ DOMAIN resp.body = {"error"}
               /\ resp.body.error = "Unauthorized - provide X-ATLAS-Key header"

\* The flask engine refused a wrong key although a snapshot and a history
\* were there to be served.
C8_Witness ==
    /\ Answered /\ engine = "flask"
    /\ api_key # "" /\ Protected(req) /\ Presents(req, "bad")
    /\ load_cache(dir, inodes) # None /\ db.exists
    /\ resp.status = 401

\* C9 as stated: with an api_key configured, a request to a protected
\* endpoint is authorised when the X-ATLAS-Key header carries the key and
\* when the key parameter carries it, in either engine; when both are
\* present the header's value is the one compared.
C9_HeaderOrQueryKey ==
    (Answered /\ api_key # "" /\ Protected(req)) =>
        /\ (req.hname = HeaderUpper /\ req.hval = api_key) => resp.status # 401
        /\ (req.hname = <<>> /\ req.qkey.val = api_key) => resp.status # 401
        /\ (req.hname = HeaderUpper /\ req.qkey.kind = "str") =>
               (resp.status = 401 <=> req.hval # api_key)

\* C10 as stated: the two engines answer every request alike, status and
\* body, in every state of key, cache and history.
C10_EnginesAgree ==
    Answered =>
        LET a == do_GET(api_key, req, dir, inodes, db, now)
            b == flask_dispatch(api_key, req, dir, inodes, db, now)
        IN  a.status = b.status /\ a.body = b.body

-----------------------------------------------------------------------------
(* Claims about ping, the cache and the sections (SpecApi).                *)

\* The request is GET /api/ping.
IsPing(r) == r.path = <<"api", "ping">> /\ ~r.slash

\* C11: GET /api/ping is answered 200 whatever key is configured, whatever
\* key is presented and whatever the cache holds; its cache field tells
\* whether the cache file exists; and the answer is the one either engine
\* gives to any ping request under any configured key (the time apart), so it
\* tells nothing about the secret.
C11_PingOpenAndBlind ==
    (Answered /\ IsPing(req)) =>
        /\ resp.status = 200
        /\ resp.body.cache = (dir[CACHE_FILE] # 0)
        /\ \A k \in ApiKeys : \A r \in Requests :
               IsPing(r) =>
                   /\ do_GET(k, r, dir, inodes, db, now) = resp
                   /\ flask_dispatch(k, r, dir, inodes, db, now) = resp

\* A ping that presented a wrong key to an API with a key configured was
\* answered 200, with the cache file missing.
C11_Witness ==
    /\ Answered /\ IsPing(req)
    /\ api_key # "" /\ Presents(req, "bad") /\ ~Presents(req, api_key)
    /\ dir[CACHE_FILE] = 0
    /\ resp.status = 200 /\ resp.body.cache = FALSE

\* The request is GET /api/stats or GET /api/stats/{section}.
IsStats(r) ==
    /\ ~r.slash
    /\ \/ r.path = <<"api", "stats">>
       \/ Len(r.path) = 3 /\ IsPrefix(<<"api", "stats">>, r.path)

\* The request is authorised: no key is configured, or the configured key is
\* presented in the key parameter with no key header beside it, or in the
\* X-ATLAS-Key header to the engine that reads the header as sent.
KeyAccepted(r) ==
    \/ api_key = ""
    \/ r.hname = <<>> /\ r.qkey.val = api_key
    \/ engine = "http" /\ r.hname = HeaderUpper /\ r.hval = api_key

Range(q) == {q[i] : i \in 1..Len(q)}

\* C13 as stated: for a snapshot in the cache and a requested name, the
\* answer is 200 with the section's payload exactly when the name is one of
\* the snapshot's section names (the names the available list gives), and
\* otherwise 404 with the available list: the snapshot's keys without
\* atlas_version, collected_at and hostname.
C13_SectionIffAvailable ==
    (/\ Answered /\ KeyAccepted(req) /\ IsStats(req) /\ Len(req.path) = 3
     /\ load_cache(dir, inodes) # None) =>
        LET data == load_cache(dir, inodes)
            name == req.path[3]
        IN  IF name \in Range(Available(data))
            THEN /\ resp.status = 200
                 /\ resp.body.section = <<name>>
                 /\ resp.body.data = Get(data, name)
            ELSE /\ resp.status = 404
                 /\ resp.body.available = Available(data)
                 /\ Range(Available(data)) = Keys(data) \ MetaKeys

-----------------------------------------------------------------------------
(* SpecLoop: the collector's main loop, cycle after cycle; the operator    *)
(* may restart the collector with history switched on or off, and the API  *)
(* may be asked for the history.                                           *)

\* Cycles started in one behaviour.
MaxLoopCycles == 3
\* How long a cycle's work may take, in time units: less than, as long as
\* and longer than an interval.
WorkTimes == {0, 1, 2}
\* Restarts of the collector by the operator.
MaxRestarts == 1
\* cfg["interval"], in time units.
Intervals == {1, 2}

\* The configuration main holds: the collector flags of DEFAULT_CONFIG, the
\* interval and history_enabled.
LoopConfig(iv, h) ==
    [k \in FlagKeys \cup {"interval", "history_enabled"} |->
        CASE k = "interval"        -> iv
          [] k = "history_enabled" -> h
          [] OTHER                 -> DEFAULT_CONFIG[k]]

\* A sleep of the whole interval, whatever the cycle took.
SleepFlat(interval, elapsed) == interval
\* max(0, cfg["interval"] - (time.time() - start))
SleepTime(interval, elapsed) ==
    IF interval - elapsed > 0 THEN interval - elapsed ELSE 0

\* with open(tmp, "w") as f: json.dump(stats, f, indent=2), up to the text
\* that reached the temporary file.
write_tmp(d, ino, rf, text) ==
    LET i  == IF d[TmpPath] = 0 THEN FreeIno(d, 0, rf) ELSE d[TmpPath]
    IN  [dir    |-> [d EXCEPT ![TmpPath] = i],
         inodes |-> [ino EXCEPT ![i] = text]]

\* write_cache(stats) when nothing fails: the text is written to the
\* temporary file, which then replaces the cache file.
write_cache(d, ino, rf, st) ==
    LET w  == write_tmp(d, ino, rf, json_dump(st))
        d2 == DirReplace(w.dir, TmpPath, CACHE_FILE)
    IN  [dir |-> d2, inodes |-> Sweep(w.inodes, d2, 0, rf)]

Bump(calls, f) == [calls EXCEPT ![f] = calls[f] + 1]
\* The cycle's record of a write_cache or a write_history call given st.
CacheCalled(this, st) ==
    [this EXCEPT !.write_cache = this.write_cache + 1, !.carg = st]
HistoryCalled(this, st) ==
    [this EXCEPT !.write_history = this.write_history + 1, !.harg = st]
\* How many rows the INSERT of write_history(st, ...) adds to the table.
Inserted(rows, st) ==
    RowCount(InsertRow(rows, Get(st, "collected_at"))) - RowCount(rows)

InitLoop ==
    /\ \E iv \in Intervals, h \in BOOLEAN : cfg = LoopConfig(iv, h)
    /\ faults = NoFaults /\ stats = NotRun
    /\ InitFiles
    /\ wpc = "idle" /\ wstats = NotRun /\ wfd = 0 /\ written = {} /\ cycle = 0
    /\ IdleReaders
    /\ now = 0
    /\ db = [exists |-> FALSE, rows |-> {}]
    /\ keep_days = DEFAULT_KEEP_DAYS
    /\ hist = [fresh |-> FALSE, ok |-> FALSE, before |-> {}]
    /\ IdleApi
    /\ committed = NotRun
    /\ \E o \in BOOLEAN :
         loop = [NoLoop EXCEPT !.pc = "top", !.once = o, !.runs = 0]
    /\ cfgfile = NoFile /\ apicfg = NotLoaded /\ apiproc = NoApiProc

\* while True: start = time.time()
CycleStart ==
    /\ loop.pc = "top"
    /\ cycle < MaxLoopCycles
    /\ cycle' = cycle + 1
    /\ loop' = [loop EXCEPT !.pc = "collect", !.start = now,
                            !.prev = IF loop.calls.collect_all = 0
                                     THEN -1 ELSE loop.start,
                            !.failed = FALSE, !.lastfailed = loop.failed,
                            !.this = NoCycle]
    /\ UNCHANGED <<dir, inodes, wpc, wstats, wfd, written>>
    /\ UNCHANGED <<collectVars, readerVars, histVars, apiVars>>
    /\ UNCHANGED <<committed, cfgfile, apicfg, apiproc>>

\* stats = collect_all(cfg).  The time the cycle's work takes passes here.
\* An exception that leaves collect_all goes to the handler of the loop.
CycleCollect ==
    /\ loop.pc = "collect"
    /\ \E d \in WorkTimes : now' = now + d
    /\ \/ /\ stats' = collect_all(cfg, faults, now, cycle)
          /\ loop' = [loop EXCEPT !.pc = "cache",
                                  !.calls = Bump(loop.calls, "collect_all")]
       \/ /\ stats' = Raised
          /\ loop' = [loop EXCEPT !.pc = "except",
                                  !.calls = Bump(loop.calls, "collect_all")]
    /\ UNCHANGED <<cfg, faults, db, keep_days, hist>>
    /\ UNCHANGED <<cacheVars, readerVars, apiVars>>
    /\ UNCHANGED <<committed, cfgfile, apicfg, apiproc>>

\* A write_cache without its try/except: a failed write leaves the call as
\* an exception, which the handler of the loop catches.
CycleWriteCacheUnguarded ==
    /\ loop.pc = "cache"
    /\ written' = written \cup {stats}
    /\ \/ /\ dir' = write_cache(dir, inodes, rfd, stats).dir
          /\ inodes' = write_cache(dir, inodes, rfd, stats).inodes
          /\ committed' = stats
          /\ loop' = [loop EXCEPT !.pc = "history",
                                  !.calls = Bump(loop.calls, "write_cache"),
                                  !.this = CacheCalled(loop.this, stats)]
       \/ /\ \E n \in {0, Len(json_dump(stats))} :
               LET w == write_tmp(dir, inodes, rfd,
                                  SubSeq(json_dump(stats), 1, n))
               IN  dir' = w.dir /\ inodes' = w.inodes
          /\ loop' = [loop EXCEPT !.pc = "except", !.failed = TRUE,
                                  !.calls = Bump(loop.calls, "write_cache"),
                                  !.this = CacheCalled(loop.this, stats)]
          /\ UNCHANGED committed
    /\ UNCHANGED <<wpc, wstats, wfd, cycle>>
    /\ UNCHANGED <<collectVars, readerVars, histVars, apiVars>>
    /\ UNCHANGED <<cfgfile, apicfg, apiproc>>

\* write_cache(stats), the whole call: it replaces the cache file, or it
\* fails before the replace, prints its error and returns (the temporary
\* file then holds what had been written; here, nothing or everything).
CycleWriteCache ==
    /\ loop.pc = "cache"
    /\ written' = written \cup {stats}
    /\ \/ /\ dir' = write_cache(dir, inodes, rfd, stats).dir
          /\ inodes' = write_cache(dir, inodes, rfd, stats).inodes
          /\ committed' = stats
          /\ loop' = [loop EXCEPT !.pc = "history",
                                  !.calls = Bump(loop.calls, "write_cache"),
                                  !.this = CacheCalled(loop.this, stats)]
       \/ /\ \E n \in {0, Len(json_dump(stats))} :
               LET w == write_tmp(dir, inodes, rfd,
                                  SubSeq(json_dump(stats), 1, n))
               IN  dir' = w.dir /\ inodes' = w.inodes
          /\ loop' = [loop EXCEPT !.pc = "history", !.failed = TRUE,
                                  !.calls = Bump(loop.calls, "write_cache"),
                                  !.this = CacheCalled(loop.this, stats)]
          /\ UNCHANGED committed
    /\ UNCHANGED <<wpc, wstats, wfd, cycle>>
    /\ UNCHANGED <<collectVars, readerVars, histVars, apiVars>>
    /\ UNCHANGED <<cfgfile, apicfg, apiproc>>

\* if cfg.get("history_enabled"): write_history(stats, keep_days), which
\* commits or prints its own error; then the status line is printed.
CycleHistory ==
    /\ loop.pc = "history"
    /\ IF cfg["history_enabled"]
       THEN /\ \/ /\ db' = write_history(db, stats, keep_days, now)
                  /\ hist' = [fresh |-> TRUE, ok |-> TRUE, before |-> db.rows]
                  /\ loop' = [loop EXCEPT !.pc = "after",
                                 !.calls = Bump(loop.calls, "write_history"),
                                 !.this = HistoryCalled(loop.this, stats),
                                 !.inserted = loop.inserted +
                                     Inserted(db.rows, stats)]
               \/ /\ hist' = [fresh |-> TRUE, ok |-> FALSE, before |-> db.rows]
                  /\ loop' = [loop EXCEPT !.pc = "after", !.failed = TRUE,
                                 !.calls = Bump(loop.calls, "write_history"),
                                 !.this = HistoryCalled(loop.this, stats),
                                 !.hfailed = loop.hfailed + 1]
                  /\ UNCHANGED db
       ELSE /\ loop' = [loop EXCEPT !.pc = "after"]
            /\ UNCHANGED <<db, hist>>
    /\ UNCHANGED <<now, keep_days>>
    /\ UNCHANGED <<collectVars, cacheVars, readerVars, apiVars>>
    /\ UNCHANGED <<committed, cfgfile, apicfg, apiproc>>

\* The loop without its try/except: the exception ends the process.
CycleUncaught ==
    /\ loop.pc = "except"
    /\ loop' = [loop EXCEPT !.pc = "exited", !.exit = 1, !.failed = TRUE]
    /\ UNCHANGED <<collectVars, cacheVars, readerVars, histVars, apiVars>>
    /\ UNCHANGED <<committed, cfgfile, apicfg, apiproc>>

\* except Exception as e: print(f"[ATLAS] Error: {e}")
CycleExcept ==
    /\ loop.pc = "except"
    /\ loop' = [loop EXCEPT !.pc = "after", !.failed = TRUE]
    /\ UNCHANGED <<collectVars, cacheVars, readerVars, histVars, apiVars>>
    /\ UNCHANGED <<committed, cfgfile, apicfg, apiproc>>

\* The end of a cycle without the test of args.once.
CycleEndNoBreak ==
    /\ loop.pc = "after"
    /\ loop' = [loop EXCEPT !.pc = "sleep", !.took = now - loop.start,
                    !.sleep = SleepTime(cfg["interval"], now - loop.start)]
    /\ UNCHANGED <<collectVars, cacheVars, readerVars, histVars, apiVars>>
    /\ UNCHANGED <<committed, cfgfile, apicfg, apiproc>>

\* if args.once: break (main returns, the process exits with status 0);
\* otherwise the argument of time.sleep is computed.
CycleEnd ==
    /\ loop.pc = "after"
    /\ IF loop.once
       THEN loop' = [loop EXCEPT !.pc = "exited", !.exit = 0,
                                 !.took = now - loop.start]
       ELSE loop' = [loop EXCEPT !.pc = "sleep", !.took = now - loop.start,
                        !.sleep = SleepTime(cfg["interval"], now - loop.start)]
    /\ UNCHANGED <<collectVars, cacheVars, readerVars, histVars, apiVars>>
    /\ UNCHANGED <<committed, cfgfile, apicfg, apiproc>>

\* time.sleep(...) returns after that long.
CycleSleep ==
    /\ loop.pc = "sleep"
    /\ now' = now + loop.sleep
    /\ loop' = [loop EXCEPT !.pc = "top"]
    /\ UNCHANGED <<db, keep_days, hist>>
    /\ UNCHANGED <<collectVars, cacheVars, readerVars, apiVars>>
    /\ UNCHANGED <<committed, cfgfile, apicfg, apiproc>>

\* The operator stops the sleeping collector, edits history_enabled in the
\* configuration and starts the collector again.
Reconfigure ==
    /\ loop.pc = "sleep"
    /\ loop.runs < MaxRestarts
    /\ \E h \in BOOLEAN : cfg' = [cfg EXCEPT !["history_enabled"] = h]
    /\ loop' = [NoLoop EXCEPT !.pc = "top", !.runs = loop.runs + 1]
    /\ req' = NoReq /\ resp' = NoResp
    /\ UNCHANGED <<faults, stats, api_key, engine>>
    /\ UNCHANGED <<cacheVars, readerVars, histVars>>
    /\ UNCHANGED <<committed, cfgfile, apicfg, apiproc>>

\* GET /api/history, with no limit, answered by the API process.
HistoryRequest == [NoReq EXCEPT !.path = <<"api", "history">>]
ServeHistory ==
    /\ resp.status = 0
    /\ req' = HistoryRequest
    /\ resp' = do_GET(api_key, req', dir, inodes, db, now)
    /\ UNCHANGED <<api_key, engine>>
    /\ UNCHANGED <<collectVars, cacheVars, readerVars, histVars, procVars>>

LoopStep == \/ CycleStart \/ CycleCollect \/ CycleWriteCache
            \/ CycleHistory \/ CycleExcept \/ CycleEnd \/ CycleSleep
NextLoop == LoopStep \/ Reconfigure \/ ServeHistory
SpecLoop == InitLoop /\ [][NextLoop]_vars

\* SpecRun: the collector process alone, which the operating system keeps
\* scheduling.
SpecRun == InitLoop /\ [][LoopStep]_vars /\ WF_vars(LoopStep)

-----------------------------------------------------------------------------
(* Claims about the main loop (SpecLoop).                                  *)

\* C14 as stated: while history_enabled is false in the configuration, GET
\* /api/history is answered 404 and carries no history record, whatever the
\* collector did before, runs with history enabled included.
C14_DisabledHistoryIs404 ==
    (Answered /\ ~cfg["history_enabled"]) =>
        /\ resp.status = 404
        /\ "snapshots" \notin DOMAIN resp.body

\* C15: without --once the process never exits, whatever fails in a cycle
\* (collect_all raising, the cache write, the history append), and every
\* cycle but the last one modelled is followed by the start of the next,
\* which calls collect_all again.
C15_LoopNeverStops ==
    /\ [](~loop.once => (loop.pc # "exited" /\ loop.exit = -1))
    /\ \A k \in 1..(MaxLoopCycles - 1) :
           (cycle = k /\ ~loop.once) ~> (cycle = k + 1 /\ loop.pc = "collect")

\* The history append failed in one cycle and was made again in the next.
C15_Witness ==
    /\ ~loop.once /\ loop.exit = -1
    /\ loop.lastfailed /\ cfg["history_enabled"]
    /\ loop.pc = "after" /\ loop.calls.write_history = 2
    /\ loop.calls.collect_all = 2 /\ loop.calls.write_cache = 2

\* C16: with --once the process starts one cycle and no more, calls
\* collect_all once and write_cache and write_history at most once each,
\* never sleeps, and ends with exit status 0 after that cycle, failed or not.
C16_OnceRunsOneCycle ==
    /\ [](loop.once =>
            /\ cycle <= 1
            /\ loop.calls.collect_all <= 1
            /\ loop.calls.write_cache <= 1
            /\ loop.calls.write_history <= 1
            /\ loop.sleep = -1 /\ loop.pc # "sleep"
            /\ loop.exit \in {-1, 0}
            /\ loop.pc = "exited" =>
                   loop.exit = 0 /\ loop.calls.collect_all = 1)
    /\ loop.once ~> (loop.pc = "exited" /\ loop.exit = 0)

\* A --once run whose single cycle failed ended with status 0.
C16_Witness ==
    /\ loop.once /\ loop.pc = "exited" /\ loop.exit = 0
    /\ loop.failed /\ loop.calls.collect_all = 1 /\ cycle = 1

\* C20: the sleep is never negative; a cycle whose work took less than the
\* interval is followed by a start exactly one interval after its own start,
\* a cycle that took the interval or longer is followed by a start right at
\* its end; so two starts are never closer than one interval, and time lost
\* to a long cycle is not made up by the cycles after it.
C20_Cadence ==
    /\ loop.pc = "sleep" => loop.sleep >= 0
    /\ (loop.pc = "collect" /\ loop.prev # -1) =>
           LET gap == loop.start - loop.prev
           IN  /\ loop.took < cfg["interval"] => gap = cfg["interval"]
               /\ loop.took >= cfg["interval"] => gap = loop.took
               /\ gap >= cfg["interval"]

\* The first cycle overran its interval, so the second started late; the
\* second was short, and the third started one interval after the second.
C20_Witness ==
    /\ cycle = 3 /\ loop.pc = "collect"
    /\ loop.prev > cfg["interval"]
    /\ loop.took < cfg["interval"]
    /\ loop.start = loop.prev + cfg["interval"]

-----------------------------------------------------------------------------
(* SpecStart: the configuration file and the start of the two processes.   *)

\* DEFAULT_CONFIG of collector.py, and DEFAULT_CONFIG of api.py.
COLLECTOR_DEFAULT_CONFIG ==
    [k \in FlagKeys \cup {"net_speed_enabled", "interval", "history_enabled",
                          "history_keep_days", "api_engine", "api_port",
                          "api_key", "api_enabled"} |->
        CASE k = "net_speed_enabled" -> TRUE
          [] k = "interval"          -> 30
          [] k = "history_enabled"   -> FALSE
          [] k = "history_keep_days" -> DEFAULT_KEEP_DAYS
          [] k = "api_engine"        -> "http"
          [] k = "api_port"          -> 19890
          [] k = "api_key"           -> ""
          [] k = "api_enabled"       -> TRUE
          [] OTHER                   -> DEFAULT_CONFIG[k]]
API_DEFAULT_CONFIG ==
    [k \in {"api_engine", "api_port", "api_key", "api_enabled"} |->
        COLLECTOR_DEFAULT_CONFIG[k]]

\* dict.update: the keys of doc with doc's values over those of c.
Update(c, doc) ==
    [k \in DOMAIN c \cup DOMAIN doc |-> IF k \in DOMAIN doc THEN doc[k] ELSE c[k]]

\* A load_config that keeps only the keys it knows.
load_config_known_keys(defaults, file) ==
    IF file.kind \in {"object", "array"}
    THEN [k \in DOMAIN defaults |->
            IF k \in DOMAIN file.doc THEN file.doc[k] ELSE defaults[k]]
    ELSE defaults

\* load_config(): cfg = DEFAULT_CONFIG.copy(); if the file exists,
\* cfg.update(json.load(f)) with every Exception passed over.  open raises
\* for an unreadable file, json.load for text that is no JSON, update for a
\* JSON value that is no object; for a JSON array update applies the leading
\* [key, value] pairs (doc) until an element that is no pair raises.
load_config(defaults, file) ==
    IF file.kind \in {"object", "array"} THEN Update(defaults, file.doc)
    ELSE defaults

\* The key init_config generates: "atl_" and 44 random characters.
GeneratedKey == "atl_generated"

\* init_config(): when the file does not exist it is written with the
\* defaults and a generated key; then load_config().  The file after it:
init_config_file(file) ==
    IF file.kind = "missing"
    THEN [kind |-> "object",
          doc  |-> [COLLECTOR_DEFAULT_CONFIG EXCEPT !["api_key"] = GeneratedKey]]
    ELSE file

\* What the user may have put in the file: any of these keys, one of them
\* unknown to both programs.
UserValues ==
    [api_key |-> "k1", api_engine |-> "flask", interval |-> 5, custom |-> "x"]
UserDocs ==
    {[k \in K |-> UserValues[k]] : K \in SUBSET DOMAIN UserValues}
ConfigFiles ==
    {NoFile} \cup {[kind |-> k, doc |-> <<>>]
                   : k \in {"unreadable", "invalid", "scalar"}}
             \cup {[kind |-> k, doc |-> d]
                   : k \in {"object", "array"}, d \in UserDocs}

\* The API process is not running.
NotStarted == "not started"

InitStart ==
    /\ cfgfile \in ConfigFiles
    /\ apicfg = NotLoaded /\ apiproc = NoApiProc
    /\ loop = NoLoop /\ committed = NotRun
    /\ api_key = "" /\ engine = NotStarted /\ req = NoReq /\ resp = NoResp
    /\ IdleCollect /\ IdleCache /\ IdleReaders /\ IdleHist

\* collector.py main: cfg = init_config()
CollectorStart ==
    /\ loop.pc = "boot"
    /\ cfgfile' = init_config_file(cfgfile)
    /\ cfg' = load_config(COLLECTOR_DEFAULT_CONFIG, cfgfile')
    /\ loop' = [loop EXCEPT !.pc = "top"]
    /\ UNCHANGED <<faults, stats, committed, apicfg, apiproc>>
    /\ UNCHANGED <<cacheVars, readerVars, histVars, apiVars>>

\* api.py main: cfg = load_config(); engine and key are taken from it; with
\* engine "off" the process exits at once.
ApiStart ==
    /\ engine = NotStarted
    /\ apicfg' = load_config(API_DEFAULT_CONFIG, cfgfile)
    /\ engine' = apicfg'["api_engine"]
    /\ api_key' = apicfg'["api_key"]
    /\ UNCHANGED <<req, resp, committed, loop, cfgfile, apiproc>>
    /\ UNCHANGED <<collectVars, cacheVars, readerVars, histVars>>

\* The running API answers GET /api/stats from a client that has no key.
StatsRequest == [NoReq EXCEPT !.path = <<"api", "stats">>]
ServeKeyless ==
    /\ engine \in {"http", "flask"}
    /\ resp.status = 0
    /\ req' = StatsRequest
    /\ resp' = IF engine = "http"
               THEN do_GET(api_key, req', dir, inodes, db, now)
               ELSE flask_dispatch(api_key, req', dir, inodes, db, now)
    /\ UNCHANGED <<api_key, engine>>
    /\ UNCHANGED <<collectVars, cacheVars, readerVars, histVars, procVars>>

NextStart == CollectorStart \/ ApiStart \/ ServeKeyless
SpecStart == InitStart /\ [][NextStart]_vars

\* What load_config owes for the file it found.
Loaded(defaults, file, result) ==
    /\ file.kind \in {"missing", "unreadable", "invalid", "scalar"} =>
           result = defaults
    /\ file.kind \in {"object", "array"} =>
           /\ DOMAIN result = DOMAIN defaults \cup DOMAIN file.doc
           /\ \A k \in DOMAIN file.doc : result[k] = file.doc[k]
           /\ \A k \in DOMAIN defaults \ DOMAIN file.doc :
                  result[k] = defaults[k]

\* C17: load_config always returns a configuration.  For a file that is
\* missing, unreadable or no JSON (or JSON that is no object) it is
\* DEFAULT_CONFIG exactly; otherwise it holds every key of the file with the
\* file's value, unknown keys included, and the default of every default key
\* the file leaves out.  Both programs: the API loads the file as it finds
\* it, the collector after init_config.
C17_LoadConfigFallsBack ==
    [][/\ (engine = NotStarted /\ engine' # NotStarted) =>
              Loaded(API_DEFAULT_CONFIG, cfgfile, apicfg')
       /\ (loop.pc = "boot" /\ loop'.pc = "top") =>
              Loaded(COLLECTOR_DEFAULT_CONFIG, cfgfile', cfg')]_vars

\* The API loaded a file that sets a key and holds a key unknown to it: it
\* has both, and the defaults for the rest.
C17_Witness ==
    /\ engine = "http" /\ loop.pc = "boot"
    /\ cfgfile.kind = "object"
    /\ DOMAIN cfgfile.doc = {"api_key", "custom"}
    /\ apicfg["custom"] = "x" /\ apicfg["api_key"] = "k1"
    /\ apicfg["api_port"] = 19890

\* C18 as stated: when no configuration file exists, the first process to
\* start, collector or API, writes one with a generated non-empty key, and
\* the API from then on refuses a request without that key.
C18_FirstStartCreatesKey ==
    /\ (engine # NotStarted \/ loop.pc # "boot") =>
           /\ cfgfile.kind # "missing"
           /\ cfgfile.kind = "object" => "api_key" \in DOMAIN cfgfile.doc
    /\ (/\ Answered /\ cfgfile.kind = "object"
        /\ "api_key" \in DOMAIN cfgfile.doc
        /\ cfgfile.doc["api_key"] # "") => resp.status = 401


-----------------------------------------------------------------------------
(* The cache file across write_cache calls, under Spec.                     *)

\* C19: in every state, between calls and at every point inside a call
\* (where a failure or a kill may end it), the cache file is absent if no
\* write_cache call has succeeded yet, and otherwise holds exactly the text
\* of the snapshot given to the last call that succeeded, which is what
\* load_cache reads from it; a call that succeeds leaves its own snapshot.
C19_CacheHoldsLatest ==
    /\ committed = NotRun => dir[CACHE_FILE] = 0
    /\ committed # NotRun =>
           /\ dir[CACHE_FILE] # 0
           /\ inodes[dir[CACHE_FILE]] = json_dump(committed)
           /\ load_cache(dir, inodes) = committed
           /\ committed \in written

\* A second call failed with its text half written, after a first call that
\* had succeeded: the cache file holds the first snapshot.
C19_Witness ==
    /\ cycle = 2 /\ wpc = "idle"
    /\ committed # NotRun /\ committed # wstats
    /\ dir[TmpPath] # 0
    /\ Len(inodes[dir[TmpPath]]) > 0
    /\ Len(inodes[dir[TmpPath]]) < Len(json_dump(wstats))
    /\ inodes[dir[CACHE_FILE]] = json_dump(committed)

-----------------------------------------------------------------------------
(* The history append within the cycles of the main loop, under SpecRun.   *)

\* The try block of the current cycle is over.
CycleOver ==
    \/ loop.pc \in {"after", "sleep", "exited"}
    \/ loop.pc = "top" /\ cycle > 0

\* The statement of C21 as written: every completed cycle with history
\* enabled has made exactly one write_history call, and while no append has
\* failed the rows inserted are as many as the cycles.
C21_HistoryOncePerCycle ==
    (CycleOver /\ cfg["history_enabled"]) =>
        /\ loop.this.write_history = 1
        /\ loop.hfailed = 0 => loop.inserted = cycle

\* C21: with history disabled write_history is never called.  With history
\* enabled a completed cycle has called write_history exactly once if its
\* collect_all returned a snapshot, whether or not the cache write failed,
\* and not at all if collect_all raised (write_cache is not called either);
\* the call comes after the cycle's write_cache call and is given the same
\* snapshot.  Every successful call inserts one row and changes no other
\* row, so the rows inserted are as many as the cycles whose collect_all
\* returned, less the appends that failed.
C21_HistoryOncePerSnapshot ==
    /\ [](/\ loop.this.write_history <= 1
          /\ loop.this.write_cache <= 1
          /\ ~cfg["history_enabled"] =>
                 loop.calls.write_history = 0 /\ loop.inserted = 0
          /\ loop.this.write_history = 1 =>
                 /\ loop.this.write_cache = 1
                 /\ loop.this.harg = loop.this.carg
                 /\ loop.this.harg = stats
          /\ CycleOver =>
                 /\ loop.this.write_cache = (IF stats = Raised THEN 0 ELSE 1)
                 /\ cfg["history_enabled"] =>
                        /\ loop.this.write_history = loop.this.write_cache
                        /\ loop.calls.write_history = loop.calls.write_cache
          /\ loop.inserted + loop.hfailed = loop.calls.write_history
          /\ RowCount(db.rows) = loop.inserted)
    /\ [][loop'.calls.write_history # loop.calls.write_history =>
            /\ loop'.inserted + loop'.hfailed =
                   loop.inserted + loop.hfailed + 1
            /\ loop'.inserted # loop.inserted =>
                   /\ RowCount(db'.rows) = RowCount(db.rows) + 1
                   /\ \A r \in db'.rows :
                          r.collected_at # Get(stats, "collected_at") =>
                              r \in db.rows
                   /\ \A r \in db.rows :
                          \E q \in db'.rows :
                              /\ q.collected_at = r.collected_at
                              /\ q.n >= r.n]_vars

\* Three cycles with history enabled: collect_all raised in one of them, the
\* cache write of the current one failed, and two rows have been inserted.
C21_Witness ==
    /\ cfg["history_enabled"] /\ CycleOver /\ cycle = 3
    /\ loop.calls.collect_all = 3 /\ loop.calls.write_cache = 2
    /\ loop.this.write_history = 1
    /\ committed # loop.this.carg
    /\ loop.hfailed = 0 /\ loop.inserted = 2
    /\ RowCount(db.rows) = 2

-----------------------------------------------------------------------------
(* SpecServe: the API process from the start of its main to its exit or    *)
(* to the requests it serves, with what each request does to the files.    *)

\* Requests one API process answers in a behaviour.
MaxRequests == 2

\* open(path, mode) on an existing or missing file: "r" changes nothing,
\* "w" creates the file or empties it.
open_file(d, ino, rf, path, mode) ==
    IF mode = "r" THEN [dir |-> d, inodes |-> ino]
    ELSE LET i == IF d[path] = 0 THEN FreeIno(d, 0, rf) ELSE d[path]
         IN  [dir    |-> [d EXCEPT ![path] = i],
              inodes |-> [ino EXCEPT ![i] = <<>>]]

\* The files after load_cache(): os.path.exists, then open(CACHE_FILE),
\* whose default mode is "r", and json.load.
load_cache_files(d, ino, rf) ==
    IF d[CACHE_FILE] = 0 THEN [dir |-> d, inodes |-> ino]
    ELSE open_file(d, ino, rf, CACHE_FILE, "r")

\* sqlite3.connect(DB_FILE): a missing file is created, empty.
sqlite_connect(h) == [h EXCEPT !.exists = TRUE]

\* A make_history_response that connects without looking for the file.
history_store_unchecked(h, limit) ==
    IF limit.kind # "int" THEN h ELSE sqlite_connect(h)

\* The store after make_history_response(limit): nothing is opened when the
\* file is missing or int(limit) raises; otherwise connect and one SELECT.
history_store(h, limit) ==
    IF ~h.exists THEN h
    ELSE IF limit.kind # "int" THEN h
    ELSE sqlite_connect(h)

\* Which make_*_response Handler.do_GET calls for a request, and with what
\* limit.
NoCall == [fn |-> "none", limit |-> Absent]
do_GET_calls(key, r) ==
    LET path   == r.path
        params == [key |-> ParseQsKey(r.qkey), limit |-> ParseQsLimit(r.limit)]
        given  == get_key_from_request(HeadersAsSent(r), params.key)
    IN  IF path = <<"api", "ping">> THEN [NoCall EXCEPT !.fn = "ping"]
        ELSE IF ~check_key(given, key) THEN NoCall
        ELSE IF path = <<"api", "stats">> THEN [NoCall EXCEPT !.fn = "stats"]
        ELSE IF Len(path) > 2 /\ IsPrefix(<<"api", "stats">>, path)
        THEN [NoCall EXCEPT !.fn = "stats"]
        ELSE IF path = <<"api", "history">>
        THEN [fn |-> "history", limit |-> LimitOrDefault(params.limit)]
        ELSE NoCall

\* Which make_*_response the views of run_flask_server call.
flask_calls(key, r) ==
    LET path  == r.path
        given == get_key_from_request(HeadersTitleCased(r), r.qkey)
        limit == IF r.limit.kind = "blank" THEN JunkText ELSE r.limit
    IN  IF r.slash THEN NoCall
        ELSE IF path = <<"api", "ping">> THEN [NoCall EXCEPT !.fn = "ping"]
        ELSE IF ~check_key(given, key) THEN NoCall
        ELSE IF path = <<"api", "stats">> THEN [NoCall EXCEPT !.fn = "stats"]
        ELSE IF Len(path) = 3 /\ IsPrefix(<<"api", "stats">>, path)
        THEN [NoCall EXCEPT !.fn = "stats"]
        ELSE IF path = <<"api", "history">>
        THEN [fn |-> "history", limit |-> LimitOrDefault(limit)]
        ELSE NoCall

\* The engine that answers: run_flask_server for "flask", run_http_server
\* for every other value that is not "off".
Calls(e, key, r) ==
    IF e = "flask" THEN flask_calls(key, r) ELSE do_GET_calls(key, r)
Dispatch(e, key, r, d, ino, h, t) ==
    IF e = "flask" THEN flask_dispatch(key, r, d, ino, h, t)
    ELSE do_GET(key, r, d, ino, h, t)

\* A main that does not test for the engine "off".
main_outcome_ignores_off(p, e) ==
    IF e = "flask" /\ ~p.flask THEN [p EXCEPT !.pc = "exited", !.exit = 1]
    ELSE IF ~p.bind THEN [p EXCEPT !.pc = "exited", !.exit = 1]
    ELSE [p EXCEPT !.pc = "serving", !.listening = TRUE]

\* main after load_config, for the engine e = args.engine or
\* cfg["api_engine"]: sys.exit(0) for "off"; run_flask_server does
\* sys.exit(1) when flask cannot be imported; a server that cannot bind its
\* port raises out of main, which ends the process with status 1; otherwise
\* the server listens and serves.
main_outcome(p, e) ==
    IF e = "off" THEN [p EXCEPT !.pc = "exited", !.exit = 0]
    ELSE IF e = "flask" /\ ~p.flask THEN [p EXCEPT !.pc = "exited", !.exit = 1]
    ELSE IF ~p.bind THEN [p EXCEPT !.pc = "exited", !.exit = 1]
    ELSE [p EXCEPT !.pc = "serving", !.listening = TRUE]

\* The configuration files the API may find, a --engine argument or none,
\* and the requests sent to it.
ServeEngines == {"http", "flask", "off", "bogus"}
ServeConfigs ==
    {NoFile, [kind |-> "invalid", doc |-> <<>>]} \cup
    {[kind |-> "object", doc |-> [api_engine |-> e, api_key |-> k]]
     : e \in ServeEngines, k \in ApiKeys}
ArgEngines == {"", "flask", "off"}
ServeRequests ==
    {r \in Requests : /\ r.hname \in {<<>>, HeaderUpper}
                      /\ r.qkey = AbsentKey
                      /\ r.limit \in {Absent, JunkText, IntText(2)}
                      /\ r.path # <<>>
                      /\ r.path # <<"api", "stats", "network">>}

InitServe ==
    /\ cfgfile \in ServeConfigs
    /\ apicfg = NotLoaded
    /\ \E a \in ArgEngines, f \in BOOLEAN, b \in BOOLEAN :
         apiproc = [NoApiProc EXCEPT !.argengine = a, !.flask = f, !.bind = b]
    /\ api_key = "" /\ engine = NotStarted /\ req = NoReq /\ resp = NoResp
    /\ \/ InitFiles
       \/ \E text \in CacheTexts :
            /\ dir = [p \in {CACHE_FILE, "tmp"} |-> IF p = CACHE_FILE THEN 1 ELSE 0]
            /\ inodes = [i \in Inos |-> IF i = 1 THEN text ELSE <<>>]
    /\ wpc = "idle" /\ wstats = NotRun /\ wfd = 0 /\ written = {} /\ cycle = 0
    /\ now = 2
    /\ db \in ApiHistories
    /\ keep_days = DEFAULT_KEEP_DAYS
    /\ hist = [fresh |-> FALSE, ok |-> FALSE, before |-> {}]
    /\ IdleCollect /\ IdleReaders
    /\ committed = NotRun /\ loop = NoLoop

\* api.py main, from load_config to sys.exit or to the serving engine.
ApiMain ==
    /\ apiproc.pc = "boot"
    /\ apicfg' = load_config(API_DEFAULT_CONFIG, cfgfile)
    /\ engine' = IF apiproc.argengine # "" THEN apiproc.argengine
                 ELSE apicfg'["api_engine"]
    /\ api_key' = apicfg'["api_key"]
    /\ apiproc' = main_outcome(apiproc, engine')
    /\ UNCHANGED <<req, resp, committed, loop, cfgfile>>
    /\ UNCHANGED <<collectVars, cacheVars, readerVars, histVars>>

\* The process after a request answered with status: send_json and jsonify
\* return to the server's loop, and abort(401) is turned into the 401
\* answer by the error handler; no handler calls sys.exit.
request_done(p, status) == [p EXCEPT !.served = p.served + 1]

\* The serving engine answers one request: the response, and the files and
\* the store as the make_*_response it called leaves them.
ServeRequest ==
    /\ apiproc.pc = "serving"
    /\ apiproc.served < MaxRequests
    /\ \E r \in ServeRequests :
         LET c == Calls(engine, api_key, r)
             f == IF c.fn = "stats" THEN load_cache_files(dir, inodes, rfd)
                  ELSE [dir |-> dir, inodes |-> inodes]
         IN  /\ req' = r
             /\ resp' = Dispatch(engine, api_key, r, dir, inodes, db, now)
             /\ dir' = f.dir /\ inodes' = f.inodes
             /\ db' = IF c.fn = "history" THEN history_store(db, c.limit)
                      ELSE db
    /\ apiproc' = request_done(apiproc, resp'.status)
    /\ UNCHANGED <<api_key, engine, now, keep_days, hist>>
    /\ UNCHANGED <<wpc, wstats, wfd, written, cycle>>
    /\ UNCHANGED <<collectVars, readerVars>>
    /\ UNCHANGED <<committed, loop, cfgfile, apicfg>>

NextServe == ApiMain \/ ServeRequest
SpecServe == InitServe /\ [][NextServe]_vars

-----------------------------------------------------------------------------
(* Claims about the API process (SpecServe).                               *)

\* C22: a request answered by either engine, whatever its path, key and
\* parameters, leaves the cache file, the temporary file, the history store
\* (a missing database file stays missing), the configuration file and the
\* configuration the process holds as they were; so the request just
\* answered would get the same answer again.
C22_RequestsAreReadOnly ==
    /\ [][apiproc'.served # apiproc.served =>
            /\ dir' = dir /\ inodes' = inodes
            /\ db' = db
            /\ cfgfile' = cfgfile
            /\ apicfg' = apicfg /\ api_key' = api_key /\ engine' = engine]_vars
    /\ [](apiproc.served > 0 =>
            resp = Dispatch(engine, api_key, req, dir, inodes, db, now))

\* The second request of a process was a history request with an accepted
\* key and a numeric limit, the database file is missing, and the answer
\* was 404.
C22_Witness ==
    /\ apiproc.served = 2 /\ apiproc.pc = "serving"
    /\ req.path = <<"api", "history">> /\ req.limit = IntText(2)
    /\ Calls(engine, api_key, req).fn = "history"
    /\ ~db.exists /\ resp.status = 404
    /\ dir[CACHE_FILE] # 0

\* C23: once main has chosen the engine, with "off" the process has exited
\* with status 0 and never listened; with "flask" and no flask to import
\* it has exited with status 1 and never listened; a process that exited
\* has served no request; and a process that has served a request, whatever
\* the status of the answer, is still listening and serving and has no exit
\* status.
C23_ExitCodes ==
    /\ apiproc.exit \in {-1, 0, 1}
    /\ apiproc.pc = "boot" => (apiproc.exit = -1 /\ ~apiproc.listening)
    /\ (apiproc.pc # "boot" /\ engine = "off") =>
           /\ apiproc.pc = "exited" /\ apiproc.exit = 0
           /\ ~apiproc.listening /\ apiproc.served = 0
    /\ (apiproc.pc # "boot" /\ engine = "flask" /\ ~apiproc.flask) =>
           /\ apiproc.pc = "exited" /\ apiproc.exit = 1
           /\ ~apiproc.listening /\ apiproc.served = 0
    /\ apiproc.pc = "exited" =>
           /\ apiproc.served = 0 /\ resp = NoResp
           /\ apiproc.exit \in {0, 1}
           /\ apiproc.exit = 0 <=> engine = "off"
    /\ apiproc.served > 0 =>
           /\ resp.status \in {200, 401, 404, 500, 503}
           /\ apiproc.pc = "serving" /\ apiproc.exit = -1
           /\ apiproc.listening

\* The flask engine, chosen by --engine over a file that says "off", has
\* answered two requests, the second with 500, and is still serving.
C23_Witness ==
    /\ apiproc.argengine = "flask" /\ apiproc.flask
    /\ cfgfile.kind = "object" /\ cfgfile.doc["api_engine"] = "off"
    /\ apiproc.served = 2 /\ resp.status = 500
    /\ apiproc.pc = "serving" /\ apiproc.exit = -1

====
